---- MODULE Spec2Model ----
(***************************************************************************)
(* Model of the credit report processor cloud function                     *)
(* (credit-report-processor-gcf/main.py): the HTTP entry point             *)
(* process_credit_report and the helper functions it calls.                *)
(*                                                                         *)
(* Texts (str) are sequences of one-character strings.  Python objects     *)
(* obtained from JSON are tagged records (JNull, JBool, JNum, JStr, JArr,  *)
(* JObj).  An operation that can raise returns [ok |-> FALSE, exc |-> ..]. *)
(***************************************************************************)
EXTENDS Integers, Sequences, FiniteSets, TLC

(***************************************************************************)
(* Bounds of the model.                                                    *)
(***************************************************************************)
\* largest number of blank characters put around a collaborator's answer
MaxPad == 1
\* largest number of entries in a generated accounts / violations list
MaxItems == 2

(***************************************************************************)
(* Python values decoded from JSON.                                        *)
(***************************************************************************)
JNull == [t |-> "null"]
JBool(b) == [t |-> "bool", b |-> b]
JNum(n) == [t |-> "num", n |-> n]
JStr(s) == [t |-> "str", s |-> s]
JArr(a) == [t |-> "arr", a |-> a]
JObj(o) == [t |-> "obj", o |-> o]

Raise(e) == [ok |-> FALSE, exc |-> e]
Return(v) == [ok |-> TRUE, val |-> v]

\* bool(v): the truth value Python gives to v in (not v) and (v and ...)
Truthy(v) ==
    CASE v.t = "null" -> FALSE
      [] v.t = "bool" -> v.b
      [] v.t = "num" -> v.n # 0
      [] v.t = "str" -> Len(v.s) > 0
      [] v.t = "arr" -> Len(v.a) > 0
      [] v.t = "obj" -> Len(v.o) > 0

\* the keys of a dict; a key given twice in the JSON text is kept once
DictKeys(v) == {v.o[i].k : i \in 1..Len(v.o)}

\* d[key] of a dict that has the key: the last pair with that key wins
DictItem(v, key) ==
    LET idx == {i \in 1..Len(v.o) : v.o[i].k = key}
        last == CHOOSE i \in idx : \A j \in idx : j <= i
    IN  v.o[last].v

\* len(d) of a dict: the number of distinct keys
DictLen(v) == Cardinality(DictKeys(v))

\* len(v): TypeError for objects without a length
PyLen(v) ==
    CASE v.t = "str" -> Return(Len(v.s))
      [] v.t = "arr" -> Return(Len(v.a))
      [] v.t = "obj" -> Return(DictLen(v))
      [] OTHER -> Raise("TypeError")

\* sub is a contiguous part of s (str.__contains__)
IsSubstring(sub, s) ==
    \E i \in 0..(Len(s) - Len(sub)) :
        \A j \in 1..Len(sub) : s[i + j] = sub[j]

\* (key in v) for a str key: substring of a str, element of a list, key of
\* a dict, TypeError for anything that is not a container
PyIn(key, v) ==
    CASE v.t = "str" -> Return(IsSubstring(key, v.s))
      [] v.t = "arr" -> Return(\E i \in 1..Len(v.a) : v.a[i] = JStr(key))
      [] v.t = "obj" -> Return(key \in DictKeys(v))
      [] OTHER -> Raise("TypeError")

\* v[key] for a str key: only a dict can be indexed by a str
PySubscript(v, key) ==
    CASE v.t = "obj" ->
            IF key \in DictKeys(v) THEN Return(DictItem(v, key))
            ELSE Raise("KeyError")
      [] OTHER -> Raise("TypeError")

\* v.get(key, default): only a dict has the method
PyGet(v, key, default) ==
    CASE v.t = "obj" ->
            IF key \in DictKeys(v) THEN Return(DictItem(v, key))
            ELSE Return(default)
      [] OTHER -> Raise("AttributeError")

(***************************************************************************)
(* Text helpers: str.strip, str.startswith, str.endswith, slicing.         *)
(***************************************************************************)
Whitespace == {" ", "\n"}

RECURSIVE LStrip(_)
LStrip(s) ==
    IF Len(s) > 0 /\ Head(s) \in Whitespace THEN LStrip(Tail(s)) ELSE s

RECURSIVE RStrip(_)
RStrip(s) ==
    IF Len(s) > 0 /\ s[Len(s)] \in Whitespace
    THEN RStrip(SubSeq(s, 1, Len(s) - 1))
    ELSE s

Strip(s) == RStrip(LStrip(s))

StartsWith(s, p) == Len(s) >= Len(p) /\ SubSeq(s, 1, Len(p)) = p

EndsWith(s, p) == Len(s) >= Len(p) /\ SubSeq(s, Len(s) - Len(p) + 1, Len(s)) = p

\* s[a:-b] for a, b >= 0 with b > 0: empty when the two cuts cross
Slice(s, a, b) == SubSeq(s, a + 1, Len(s) - b)

(***************************************************************************)
(* json.loads, as the decoder of the Python standard library scans a text: *)
(* literals null/true/false, non-negative integers, strings without escape *)
(* sequences, arrays and objects, blanks allowed between tokens.           *)
(***************************************************************************)
Digits == <<"0", "1", "2", "3", "4", "5", "6", "7", "8", "9">>

IsDigit(c) == \E k \in 1..Len(Digits) : Digits[k] = c

DigitVal(c) == (CHOOSE k \in 1..Len(Digits) : Digits[k] = c) - 1

ParseFail == [ok |-> FALSE]

ParseOk(v, n) == [ok |-> TRUE, val |-> v, next |-> n]

\* index of the first character at or after i that is not a blank
RECURSIVE SkipWs(_, _)
SkipWs(s, i) ==
    IF i <= Len(s) /\ s[i] \in Whitespace THEN SkipWs(s, i + 1) ELSE i

\* the text has the word w at index i
HasWord(s, i, w) == i + Len(w) - 1 <= Len(s) /\ SubSeq(s, i, i + Len(w) - 1) = w

\* digits of a number after its first digit
RECURSIVE ScanDigits(_, _, _)
ScanDigits(s, i, acc) ==
    IF i <= Len(s) /\ IsDigit(s[i])
    THEN ScanDigits(s, i + 1, acc * 10 + DigitVal(s[i]))
    ELSE ParseOk(JNum(acc), i)

\* characters of a string after its opening quote; a raw line break inside
\* a string is rejected (strict mode)
RECURSIVE ScanString(_, _, _)
ScanString(s, i, acc) ==
    IF i > Len(s) THEN ParseFail
    ELSE IF s[i] = "\"" THEN ParseOk(acc, i + 1)
    ELSE IF s[i] = "\n" THEN ParseFail
    ELSE ScanString(s, i + 1, Append(acc, s[i]))

RECURSIVE ParseValue(_, _)
RECURSIVE ParseArrayRest(_, _, _)
RECURSIVE ParseObjectRest(_, _, _)

\* scan_once: the value that starts exactly at index i
ParseValue(s, i) ==
    IF i > Len(s) THEN ParseFail
    ELSE IF s[i] = "\"" THEN
        LET r == ScanString(s, i + 1, <<>>)
        IN  IF r.ok THEN ParseOk(JStr(r.val), r.next) ELSE ParseFail
    ELSE IF s[i] = "{" THEN
        LET j == SkipWs(s, i + 1)
        IN  IF j <= Len(s) /\ s[j] = "}" THEN ParseOk(JObj(<<>>), j + 1)
            ELSE ParseObjectRest(s, j, <<>>)
    ELSE IF s[i] = "[" THEN
        LET j == SkipWs(s, i + 1)
        IN  IF j <= Len(s) /\ s[j] = "]" THEN ParseOk(JArr(<<>>), j + 1)
            ELSE ParseArrayRest(s, j, <<>>)
    ELSE IF HasWord(s, i, <<"n", "u", "l", "l">>) THEN ParseOk(JNull, i + 4)
    ELSE IF HasWord(s, i, <<"t", "r", "u", "e">>) THEN ParseOk(JBool(TRUE), i + 4)
    ELSE IF HasWord(s, i, <<"f", "a", "l", "s", "e">>) THEN ParseOk(JBool(FALSE), i + 5)
    ELSE IF s[i] = "0" THEN ParseOk(JNum(0), i + 1)
    ELSE IF IsDigit(s[i]) THEN ScanDigits(s, i + 1, DigitVal(s[i]))
    ELSE ParseFail

\* JSONArray: i is where the next element must start
ParseArrayRest(s, i, acc) ==
    LET r == ParseValue(s, i)
        j == SkipWs(s, r.next)
    IN  IF ~r.ok THEN ParseFail
        ELSE IF j > Len(s) THEN ParseFail
        ELSE IF s[j] = "]" THEN ParseOk(JArr(Append(acc, r.val)), j + 1)
        ELSE IF s[j] = "," THEN ParseArrayRest(s, SkipWs(s, j + 1), Append(acc, r.val))
        ELSE ParseFail

\* JSONObject: i is where the opening quote of the next key must be
ParseObjectRest(s, i, acc) ==
    IF i > Len(s) \/ s[i] # "\"" THEN ParseFail
    ELSE
        LET k == ScanString(s, i + 1, <<>>)
            c == SkipWs(s, k.next)
            v == ParseValue(s, SkipWs(s, c + 1))
            j == SkipWs(s, v.next)
            pairs == Append(acc, [k |-> k.val, v |-> v.val])
        IN  IF ~k.ok THEN ParseFail
            ELSE IF c > Len(s) \/ s[c] # ":" THEN ParseFail
            ELSE IF ~v.ok THEN ParseFail
            ELSE IF j > Len(s) THEN ParseFail
            ELSE IF s[j] = "}" THEN ParseOk(JObj(pairs), j + 1)
            ELSE IF s[j] = "," THEN ParseObjectRest(s, SkipWs(s, j + 1), pairs)
            ELSE ParseFail

\* json.loads(s): one value, blanks around it, nothing else
JsonLoads(s) ==
    LET r == ParseValue(s, SkipWs(s, 1))
    IN  IF ~r.ok THEN Raise("JSONDecodeError")
        ELSE IF SkipWs(s, r.next) # Len(s) + 1 THEN Raise("JSONDecodeError")
        ELSE Return(r.val)

(***************************************************************************)
(* The Markdown fence handling of the two Gemini helpers that return JSON. *)
(***************************************************************************)
\* the grave accent character (U+0060), which a TLA+ string cannot hold
Backtick == "GRAVE"

Fence == <<Backtick, Backtick, Backtick>>

FenceJson == Fence \o <<"j", "s", "o", "n">>

\* variant: the branch for the fence tagged json is missing
StripCodeFence_PlainOnly(text) ==
    LET json_str == Strip(text)
    IN  IF StartsWith(json_str, Fence) /\ EndsWith(json_str, Fence)
        THEN Strip(Slice(json_str, 3, 3))
        ELSE json_str

\* json_str after the strip and the if/elif on the fences
StripCodeFence(text) ==
    LET json_str == Strip(text)
    IN  IF StartsWith(json_str, FenceJson) /\ EndsWith(json_str, Fence)
        THEN Strip(Slice(json_str, 7, 3))
        ELSE IF StartsWith(json_str, Fence) /\ EndsWith(json_str, Fence)
        THEN Strip(Slice(json_str, 3, 3))
        ELSE json_str

\* the value a helper decodes from the text of a Gemini response
ParseGeminiJson(text) == JsonLoads(StripCodeFence(text))

(***************************************************************************)
(* Texts and values the outside world can hand to the function.            *)
(***************************************************************************)
K_pdf_url == <<"p", "d", "f", "_", "u", "r", "l">>

K_user_id == <<"u", "s", "e", "r", "_", "i", "d">>

K_personal_info == <<"p", "e", "r", "s", "o", "n", "a", "l", "_", "i", "n", "f", "o">>

K_accounts == <<"a", "c", "c", "o", "u", "n", "t", "s">>

K_inquiries == <<"i", "n", "q", "u", "i", "r", "i", "e", "s">>

K_title == <<"t", "i", "t", "l", "e">>

\* decimal digits of a natural number
RECURSIVE NumText(_)
NumText(n) ==
    IF n < 10 THEN <<Digits[n + 1]>>
    ELSE NumText(n \div 10) \o <<Digits[(n % 10) + 1]>>

\* a JSON text that denotes the value v, written without blanks
RECURSIVE JsonText(_)
RECURSIVE JsonTextItems(_, _)
RECURSIVE JsonTextPairs(_, _)
JsonText(v) ==
    CASE v.t = "null" -> <<"n", "u", "l", "l">>
      [] v.t = "bool" -> IF v.b THEN <<"t", "r", "u", "e">>
                         ELSE <<"f", "a", "l", "s", "e">>
      [] v.t = "num" -> NumText(v.n)
      [] v.t = "str" -> <<"\"">> \o v.s \o <<"\"">>
      [] v.t = "arr" -> <<"[">> \o JsonTextItems(v.a, 1) \o <<"]">>
      [] v.t = "obj" -> <<"{">> \o JsonTextPairs(v.o, 1) \o <<"}">>

JsonTextItems(a, i) ==
    IF i > Len(a) THEN <<>>
    ELSE (IF i > 1 THEN <<",">> ELSE <<>>) \o JsonText(a[i]) \o JsonTextItems(a, i + 1)

JsonTextPairs(o, i) ==
    IF i > Len(o) THEN <<>>
    ELSE (IF i > 1 THEN <<",">> ELSE <<>>)
         \o <<"\"">> \o o[i].k \o <<"\"", ":">> \o JsonText(o[i].v)
         \o JsonTextPairs(o, i + 1)

\* a list of n copies of the entry e
Repeat(e, n) == [i \in 1..n |-> e]

Pair(k, v) == [k |-> k, v |-> v]

\* bodies of the HTTP request: none at all, bytes that are not JSON, or a
\* JSON text that denotes the value val
RequestFieldValues ==
    {JNull, JNum(5), JStr(<<>>), JStr(<<"u">>)}

RequestObjects ==
    {JObj(<<>>),
     JObj(<<Pair(K_pdf_url, JStr(<<"u">>))>>),
     JObj(<<Pair(K_user_id, JStr(<<"i">>))>>)}
    \cup {JObj(<<Pair(K_pdf_url, p), Pair(K_user_id, u)>>) :
            p \in RequestFieldValues, u \in RequestFieldValues}

RequestValues ==
    {JNull, JBool(FALSE), JBool(TRUE), JNum(0), JNum(5),
     JStr(<<>>), JStr(<<"a">>), JStr(<<"x">> \o K_pdf_url),
     JArr(<<>>), JArr(<<JNum(1)>>), JArr(<<JStr(K_pdf_url)>>),
     JArr(<<JStr(K_user_id)>>)}
    \cup RequestObjects

RequestBodies ==
    {[kind |-> "none"], [kind |-> "not_json"]}
    \cup {[kind |-> "json", val |-> v] : v \in RequestValues}

\* outcomes of the GET of the document; a response carries a status code
\* and a content that is a PDF with pages, a PDF without pages or no PDF
StatusCodes == {200, 304, 404, 500}

Contents == {"pdf", "pdf_no_pages", "not_pdf"}

FetchOutcomes ==
    {[kind |-> "timeout"], [kind |-> "connection_error"]}
    \cup {[kind |-> "response", status_code |-> c, content |-> b] :
            c \in StatusCodes, b \in Contents}

\* outcomes of the Vision call
VisionOutcomes ==
    {[kind |-> "call_failed"],
     [kind |-> "response", error_message |-> <<"e">>, has_annotation |-> FALSE, text |-> <<>>],
     [kind |-> "response", error_message |-> <<>>, has_annotation |-> FALSE, text |-> <<>>],
     [kind |-> "response", error_message |-> <<>>, has_annotation |-> TRUE, text |-> <<>>],
     [kind |-> "response", error_message |-> <<>>, has_annotation |-> TRUE, text |-> <<"J", "D">>]}

\* values a structuring answer can denote: the report objects ...
Absent == [t |-> "absent"]

AccountsChoices ==
    {Absent} \cup {JArr(Repeat(JNum(1), n)) : n \in 0..MaxItems} \cup {JNull, JNum(5)}

InquiriesChoices ==
    {Absent} \cup {JArr(Repeat(JNum(1), n)) : n \in 0..MaxItems} \cup {JNum(0)}

ReportObject(acc, inq) ==
    JObj(<<Pair(K_personal_info, JObj(<<>>))>>
         \o (IF acc = Absent THEN <<>> ELSE <<Pair(K_accounts, acc)>>)
         \o (IF inq = Absent THEN <<>> ELSE <<Pair(K_inquiries, inq)>>))

ReportObjects ==
    {ReportObject(acc, inq) : acc \in AccountsChoices, inq \in InquiriesChoices}

\* ... and the other JSON values
OtherValues ==
    {JNull, JBool(FALSE), JBool(TRUE), JNum(0), JNum(5), JStr(<<>>), JStr(<<"a">>),
     JArr(<<>>), JArr(<<JNum(1)>>), JObj(<<>>)}

\* texts that are not JSON
BadTexts == {<<>>, <<"{">>, <<"x">>, <<"[", "1", ",", "]">>}

StructureTexts ==
    {JsonText(v) : v \in ReportObjects \cup OtherValues} \cup BadTexts

\* values a detection answer can denote
ViolationObject == JObj(<<Pair(K_title, JStr(<<"t">>))>>)

ViolationValues ==
    {JArr(Repeat(ViolationObject, n)) : n \in 0..MaxItems}
    \cup {ViolationObject, JStr(<<"a", "b">>), JNum(5), JNull, JBool(TRUE)}

DetectTexts == {JsonText(v) : v \in ViolationValues} \cup BadTexts

\* the ways a model wraps its answer: bare, in a fence, in a fence tagged
\* json, in a fence with another language tag
FenceForms == {"bare", "plain", "json", "tagged"}

OtherTag == <<"J", "S", "O", "N">>

Blanks(k) == [i \in 1..k |-> "\n"]

Wrap(form, J, k) ==
    CASE form = "bare" -> Blanks(k) \o J \o Blanks(k)
      [] form = "plain" ->
            Blanks(k) \o Fence \o Blanks(k) \o J \o Blanks(k) \o Fence \o Blanks(k)
      [] form = "json" ->
            Blanks(k) \o FenceJson \o Blanks(k) \o J \o Blanks(k) \o Fence \o Blanks(k)
      [] form = "tagged" ->
            Blanks(k) \o Fence \o OtherTag \o Blanks(k) \o J \o Blanks(k) \o Fence \o Blanks(k)

\* outcomes of a Gemini call that is to answer with JSON
GeminiOutcomes(texts) ==
    {[kind |-> "call_failed"]}
    \cup {[kind |-> "response", text |-> Wrap(f, J, k)] :
            f \in FenceForms, J \in texts, k \in 0..MaxPad}

\* outcomes of the Gemini call that drafts the letter
LetterOutcomes ==
    {[kind |-> "call_failed"],
     [kind |-> "response", text |-> <<>>],
     [kind |-> "response", text |-> <<"D", "e", "a", "r">>]}

\* outcomes of the insert
InsertOutcomes == {"raised", "returned"}

(***************************************************************************)
(* The functions of main.py.                                               *)
(***************************************************************************)
\* a local variable that has not been assigned yet
Unset == [t |-> "unset"]

\* request.get_json(silent=True): None unless the body is JSON
GetJson(body) == IF body.kind = "json" THEN body.val ELSE JNull

\* (request_json and key in request_json), then request_json[key]
RequestField(request_json, key) ==
    IF ~Truthy(request_json) THEN Return(JNull)
    ELSE LET c == PyIn(key, request_json)
         IN  IF ~c.ok THEN c
             ELSE IF c.val THEN PySubscript(request_json, key)
             ELSE Return(JNull)

\* the two fields read from the request; pdf_url is read first
RequestFields(request_json) ==
    LET p == RequestField(request_json, K_pdf_url)
        u == RequestField(request_json, K_user_id)
    IN  IF ~p.ok THEN p
        ELSE IF ~u.ok THEN u
        ELSE Return([pdf_url |-> p.val, user_id |-> u.val])

\* not pdf_url or not user_id
MissingField(f) == ~Truthy(f.pdf_url) \/ ~Truthy(f.user_id)

\* what requests.get can do for this URL: a URL that is not a str is
\* refused before anything is sent
FetchOutcomesFor(url) ==
    IF url.t = "str" THEN FetchOutcomes ELSE {[kind |-> "invalid_url"]}

\* variant: only a server error raises
RaisesForStatus_ServerErrorOnly(status_code) ==
    500 <= status_code /\ status_code < 600

\* Response.raise_for_status: HTTPError for a 4xx or 5xx status code
RaisesForStatus(status_code) == 400 <= status_code /\ status_code < 600

\* requests.get(pdf_url, timeout=30) followed by raise_for_status()
FetchDocument(outcome) ==
    IF outcome.kind # "response" THEN Raise(outcome.kind)
    ELSE IF RaisesForStatus(outcome.status_code) THEN Raise("HTTPError")
    ELSE Return(outcome)

\* PyPDF2.PdfReader accepts the content and finds at least one page, so
\* that the Vision client is called
ReachesVision(content) == content = "pdf"

\* extract_text_from_pdf_with_vision_ai
ExtractText(content, vision) ==
    IF content = "not_pdf" THEN Raise("PdfReadError")
    ELSE IF content = "pdf_no_pages" THEN Raise("ValueError: PDF has no pages")
    ELSE IF vision.kind # "response" THEN Raise("VisionCallError")
    ELSE IF Len(vision.error_message) > 0 THEN Raise("Vision AI error")
    ELSE IF vision.has_annotation THEN Return(JStr(vision.text))
    ELSE Return(JStr(<<>>))

\* variant: the check for an empty text is missing
ExtractStep_Unchecked(content, vision) == ExtractText(content, vision)

\* step 2 of process_credit_report: the call and the check of its result
ExtractStep(content, vision) ==
    LET r == ExtractText(content, vision)
    IN  IF ~r.ok THEN r
        ELSE IF ~Truthy(r.val) THEN Raise("Could not extract text from PDF.")
        ELSE r

\* parse_credit_report_with_gemini
ParseCreditReport(gemini) ==
    IF gemini.kind # "response" THEN Raise("GeminiCallError")
    ELSE ParseGeminiJson(gemini.text)

\* variant: the check for an empty report is missing
StructureStep_Unchecked(gemini) == ParseCreditReport(gemini)

\* step 3 of process_credit_report
StructureStep(gemini) ==
    LET r == ParseCreditReport(gemini)
    IN  IF ~r.ok THEN r
        ELSE IF ~Truthy(r.val) THEN Raise("Could not parse credit report data.")
        ELSE r

\* detect_violations_with_gemini: the log line after the parse takes the
\* length of the decoded value
DetectViolations(gemini) ==
    IF gemini.kind # "response" THEN Raise("GeminiCallError")
    ELSE LET r == ParseGeminiJson(gemini.text)
         IN  IF ~r.ok THEN r
             ELSE IF ~PyLen(r.val).ok THEN PyLen(r.val)
             ELSE r

\* the first argument of the call of step 5
PersonalInfo(parsed_report) == PyGet(parsed_report, K_personal_info, JObj(<<>>))

\* generate_dispute_letter_with_gemini
GenerateLetter(gemini) ==
    IF gemini.kind # "response" THEN Raise("GeminiCallError")
    ELSE Return(JStr(gemini.text))

\* the record handed to the insert
SupabaseData(uid, url, text, parsed_report, violations, letter) ==
    [user_id |-> uid, pdf_url |-> url, extracted_text |-> text,
     parsed_data |-> parsed_report, violations |-> violations,
     dispute_letter |-> letter, processed_at |-> "now"]

\* len(parsed_credit_report.get(key, []))
CountOf(parsed_report, key) ==
    LET g == PyGet(parsed_report, key, JArr(<<>>))
    IN  IF ~g.ok THEN g ELSE PyLen(g.val)

\* the summary of the success response, evaluated entry by entry
Summary(parsed_report, violations) ==
    LET v == PyLen(violations)
        a == CountOf(parsed_report, K_accounts)
        i == CountOf(parsed_report, K_inquiries)
    IN  IF ~v.ok THEN v
        ELSE IF ~a.ok THEN a
        ELSE IF ~i.ok THEN i
        ELSE Return([violations_found |-> v.val, accounts_analyzed |-> a.val,
                     inquiries_found |-> i.val])

\* the three kinds of outcome of process_credit_report
MissingResponse ==
    [kind |-> "returned", code |-> 400, status |-> "error",
     message |-> "Missing pdf_url or user_id"]

ErrorResponse(e) ==
    [kind |-> "returned", code |-> 500, status |-> "error", message |-> e]

SuccessResponse(data, summary) ==
    [kind |-> "returned", code |-> 200, status |-> "success",
     message |-> "Credit report processed successfully",
     data |-> data, summary |-> summary]

Unhandled(e) == [kind |-> "raised", exc |-> e]

\* variant: a failed insert is swallowed and success is reported
PersistStep_Swallowed(outcome, row, parsed_report, violations) ==
    LET summary == Summary(parsed_report, violations)
    IN  IF summary.ok
        THEN [inserted |-> outcome # "raised",
              result |-> SuccessResponse(<<row>>, summary.val)]
        ELSE [inserted |-> outcome # "raised",
              result |-> ErrorResponse(summary.exc)]

\* the insert and what follows it: whether a row was written and what the
\* function returns
PersistStep(outcome, row, parsed_report, violations) ==
    LET summary == Summary(parsed_report, violations)
    IN  IF outcome = "raised"
        THEN [inserted |-> FALSE, result |-> ErrorResponse("InsertError")]
        ELSE IF summary.ok
        THEN [inserted |-> TRUE, result |-> SuccessResponse(<<row>>, summary.val)]
        ELSE [inserted |-> TRUE, result |-> ErrorResponse(summary.exc)]

(***************************************************************************)
(* One execution of process_credit_report as a state machine.              *)
(***************************************************************************)
VARIABLES
    pc,                    \* the step the execution is at
    request,               \* the body of the HTTP request
    pdf_url,               \* locals of process_credit_report
    user_id,
    pdf_response,
    vision_response,       \* response of the Vision call inside the extraction
    extracted_text,
    parsed_credit_report,
    detected_violations,
    dispute_letter,
    gemini_response,       \* text of the last Gemini response, as received
    table,                 \* rows of credit_reports_analysis, in insert order
    calls,                 \* the collaborators invoked so far, in order
    result                 \* what process_credit_report returned or raised

vars == <<pc, request, pdf_url, user_id, pdf_response, vision_response,
          extracted_text,
          parsed_credit_report, detected_violations, dispute_letter,
          gemini_response, table, calls, result>>

Collaborators == <<"fetch", "extract", "structure", "detect", "draft", "persist">>

Steps == <<"Validating", "Fetching", "Extracting", "Structuring", "Detecting",
           "Drafting", "Persisting", "Done">>

\* number of invocations of the collaborator c so far
Count(c) == Cardinality({i \in 1..Len(calls) : calls[i] = c})

Init ==
    /\ pc = "Validating"
    /\ request \in RequestBodies
    /\ pdf_url = Unset
    /\ user_id = Unset
    /\ pdf_response = Unset
    /\ vision_response = Unset
    /\ extracted_text = Unset
    /\ parsed_credit_report = Unset
    /\ detected_violations = Unset
    /\ dispute_letter = Unset
    /\ gemini_response = Unset
    /\ table = <<>>
    /\ calls = <<>>
    /\ result = Unset

\* variant: a failing step is tried again
Fail_Retry(e) ==
    /\ pc' = pc
    /\ result' = ErrorResponse(e)

\* the except clause at the end of process_credit_report
Fail(e) ==
    /\ pc' = "Failed"
    /\ result' = ErrorResponse(e)

\* reading and checking the request, up to the 400 response
Validate ==
    /\ pc = "Validating"
    /\ LET f == RequestFields(GetJson(request))
       IN  IF ~f.ok
           THEN /\ pc' = "Raised"
                /\ result' = Unhandled(f.exc)
                /\ UNCHANGED <<pdf_url, user_id>>
           ELSE /\ pdf_url' = f.val.pdf_url
                /\ user_id' = f.val.user_id
                /\ IF MissingField(f.val)
                   THEN /\ pc' = "Failed"
                        /\ result' = MissingResponse
                   ELSE /\ pc' = "Fetching"
                        /\ UNCHANGED result
    /\ UNCHANGED <<request, pdf_response, vision_response, extracted_text,
                   parsed_credit_report,
                   detected_violations, dispute_letter, gemini_response, table,
                   calls>>

\* step 1: download the document
Fetch ==
    /\ pc = "Fetching"
    /\ calls' = Append(calls, "fetch")
    /\ \E outcome \in FetchOutcomesFor(pdf_url) :
         LET r == FetchDocument(outcome)
         IN  /\ pdf_response' =
                    IF outcome.kind = "response" THEN outcome ELSE Unset
             /\ IF r.ok
                THEN /\ pc' = "Extracting"
                     /\ UNCHANGED result
                ELSE Fail(r.exc)
    /\ UNCHANGED <<request, pdf_url, user_id, vision_response, extracted_text,
                   parsed_credit_report, detected_violations, dispute_letter,
                   gemini_response, table>>

\* step 2: extract the text
Extract ==
    /\ pc = "Extracting"
    /\ calls' = IF ReachesVision(pdf_response.content)
                THEN Append(calls, "extract") ELSE calls
    /\ \E vision \in VisionOutcomes :
         LET r == ExtractStep(pdf_response.content, vision)
         IN  /\ vision_response' =
                    IF ReachesVision(pdf_response.content) /\ vision.kind = "response"
                    THEN vision ELSE Unset
             /\ IF r.ok
                THEN /\ extracted_text' = r.val
                     /\ pc' = "Structuring"
                     /\ UNCHANGED result
                ELSE /\ Fail(r.exc)
                     /\ UNCHANGED extracted_text
    /\ UNCHANGED <<request, pdf_url, user_id, pdf_response,
                   parsed_credit_report, detected_violations, dispute_letter,
                   gemini_response, table>>

\* step 3: structure the text
Structure ==
    /\ pc = "Structuring"
    /\ calls' = Append(calls, "structure")
    /\ \E gemini \in GeminiOutcomes(StructureTexts) :
         LET r == StructureStep(gemini)
         IN  /\ gemini_response' =
                    IF gemini.kind = "response" THEN JStr(gemini.text) ELSE Unset
             /\ IF r.ok
                THEN /\ parsed_credit_report' = r.val
                     /\ pc' = "Detecting"
                     /\ UNCHANGED result
                ELSE /\ Fail(r.exc)
                     /\ UNCHANGED parsed_credit_report
    /\ UNCHANGED <<request, pdf_url, user_id, pdf_response, vision_response,
                   extracted_text,
                   detected_violations, dispute_letter, table>>

\* step 4: detect the violations
Detect ==
    /\ pc = "Detecting"
    /\ calls' = Append(calls, "detect")
    /\ \E gemini \in GeminiOutcomes(DetectTexts) :
         LET r == DetectViolations(gemini)
         IN  /\ gemini_response' =
                    IF gemini.kind = "response" THEN JStr(gemini.text) ELSE Unset
             /\ IF r.ok
                THEN /\ detected_violations' = r.val
                     /\ pc' = "Drafting"
                     /\ UNCHANGED result
                ELSE /\ Fail(r.exc)
                     /\ UNCHANGED detected_violations
    /\ UNCHANGED <<request, pdf_url, user_id, pdf_response, vision_response,
                   extracted_text, parsed_credit_report, dispute_letter, table>>

\* step 5: draft the letter; the argument is evaluated before the call
Draft ==
    /\ pc = "Drafting"
    /\ IF ~PersonalInfo(parsed_credit_report).ok
       THEN /\ Fail(PersonalInfo(parsed_credit_report).exc)
            /\ UNCHANGED <<calls, dispute_letter, gemini_response>>
       ELSE /\ calls' = Append(calls, "draft")
            /\ \E gemini \in LetterOutcomes :
                 LET r == GenerateLetter(gemini)
                 IN  /\ gemini_response' =
                            IF gemini.kind = "response" THEN JStr(gemini.text) ELSE Unset
                     /\ IF r.ok
                        THEN /\ dispute_letter' = r.val
                             /\ pc' = "Persisting"
                             /\ UNCHANGED result
                        ELSE /\ Fail(r.exc)
                             /\ UNCHANGED dispute_letter
    /\ UNCHANGED <<request, pdf_url, user_id, pdf_response, vision_response,
                   extracted_text, parsed_credit_report, detected_violations, table>>

\* step 6: insert the record, then build the success response
Persist ==
    /\ pc = "Persisting"
    /\ calls' = Append(calls, "persist")
    /\ \E outcome \in InsertOutcomes :
         LET row == SupabaseData(user_id, pdf_url, extracted_text,
                                 parsed_credit_report, detected_violations,
                                 dispute_letter)
             r == PersistStep(outcome, row, parsed_credit_report,
                              detected_violations)
         IN  /\ table' = IF r.inserted THEN Append(table, row) ELSE table
             /\ result' = r.result
             /\ pc' = IF r.result.code = 200 THEN "Done" ELSE "Failed"
    /\ UNCHANGED <<request, pdf_url, user_id, pdf_response, vision_response,
                   extracted_text, parsed_credit_report, detected_violations, dispute_letter,
                   gemini_response>>

Next ==
    \/ Validate
    \/ Fetch
    \/ Extract
    \/ Structure
    \/ Detect
    \/ Draft
    \/ Persist

Spec == Init /\ [][Next]_vars

(***************************************************************************)
(* Properties.                                                             *)
(***************************************************************************)
\* the last collaborator invoked
LastCall == IF calls = <<>> THEN "none" ELSE calls[Len(calls)]

\* the execution has ended
Ended == pc \in {"Done", "Failed", "Raised"}

\* the request body is a JSON object that carries a non-empty value for key
FieldGiven(body, key) ==
    /\ body.kind = "json"
    /\ body.val.t = "obj"
    /\ \E i \in 1..Len(body.val.o) : body.val.o[i].k = key
    /\ Truthy(DictItem(body.val, key))

\* the GET of the document came back with a response
GotResponse == pdf_response # Unset

\* C1: whatever the shape of the request body, when pdf_url or user_id is
\* missing or empty the function returns the 400 response with the message
\* "Missing pdf_url or user_id" and no collaborator is invoked.
C1_MissingFieldIs400 ==
    (pc # "Validating"
        /\ (~FieldGiven(request, K_pdf_url) \/ ~FieldGiven(request, K_user_id)))
    => (result = MissingResponse /\ calls = <<>>)

\* C2 as stated: for a valid request whose fetch fails - a status that is
\* not 2xx, a timeout or a connection failure - the function returns 500
\* with an error envelope and no collaborator after the fetch is invoked.
C2_Non2xxFetchIs500 ==
    (calls # <<>>
        /\ (~GotResponse \/ pdf_response.status_code \notin 200..299))
    => (pc = "Failed" /\ result = ErrorResponse(result.message)
        /\ calls = <<"fetch">>)

\* C2 amended: for a valid request whose fetch fails - a 4xx or 5xx status,
\* a timeout or a connection failure - the function returns 500 with an
\* error envelope and no collaborator after the fetch is invoked.
C2_FailedFetchIs500 ==
    (calls # <<>>
        /\ (~GotResponse \/ pdf_response.status_code \in 400..599))
    => (pc = "Failed" /\ result = ErrorResponse(result.message)
        /\ calls = <<"fetch">>)

\* a fetch that ended with a 4xx status has been answered with 500
C2_Witness ==
    /\ pc = "Failed"
    /\ calls = <<"fetch">>
    /\ GotResponse
    /\ pdf_response.status_code = 404
    /\ result.code = 500

\* the upstream results are all there and well formed: a non-empty text, a
\* non-empty report object, a list of violations, a non-empty letter
WellFormedRow(row) ==
    /\ row.extracted_text.t = "str" /\ Truthy(row.extracted_text)
    /\ row.parsed_data.t = "obj" /\ Truthy(row.parsed_data)
    /\ row.violations.t = "arr"
    /\ row.dispute_letter.t = "str" /\ Truthy(row.dispute_letter)

\* C3: the insert is invoked only when every upstream step has produced a
\* non-empty, well-formed result; no record with a missing or empty upstream
\* result is ever written.
C3_OnlyCompleteRecords ==
    /\ "persist" \in {calls[i] : i \in 1..Len(calls)} =>
            WellFormedRow(SupabaseData(user_id, pdf_url, extracted_text,
                                       parsed_credit_report,
                                       detected_violations, dispute_letter))
    /\ \A i \in 1..Len(table) : WellFormedRow(table[i])

\* the JSON texts among the answers of the two collaborators
JsonAnswers == {J \in StructureTexts \cup DetectTexts : JsonLoads(J).ok}

\* every JSON text in every fence form, with the value the bare text denotes
FencedAnswers ==
    {[form |-> f, text |-> JStr(Wrap(f, J, k)), val |-> JsonLoads(J).val] :
        f \in FenceForms, J \in JsonAnswers, k \in 0..MaxPad}

\* the step that received the last answer ended as it ends for an answer
\* that denotes the value v
ParsedAs(v) ==
    \/ /\ LastCall = "structure"
       /\ IF Truthy(v)
          THEN pc = "Detecting" /\ parsed_credit_report = v
          ELSE pc = "Failed" /\ parsed_credit_report = Unset
    \/ /\ LastCall = "detect"
       /\ IF PyLen(v).ok
          THEN detected_violations = v
          ELSE pc = "Failed" /\ detected_violations = Unset

\* C4 as stated: for every JSON text J and every fence form - bare, a plain
\* fence, a fence with a language tag - the answer J in that form is parsed
\* to the value the bare J denotes.
C4_AnyFenceParsesAsBare ==
    LastCall \in {"structure", "detect"} =>
        \A e \in FencedAnswers :
            gemini_response = e.text => ParsedAs(e.val)

\* C4 amended: for every JSON text J and each of the fence forms bare,
\* plain fence and fence tagged json (in lower case), the answer J in that
\* form is parsed to the value the bare J denotes.
C4_JsonFenceParsesAsBare ==
    LastCall \in {"structure", "detect"} =>
        \A e \in FencedAnswers :
            (e.form \in {"bare", "plain", "json"} /\ gemini_response = e.text)
            => ParsedAs(e.val)

\* a report in a fence tagged json, with line breaks, has been decoded
C4_Witness ==
    /\ pc = "Detecting"
    /\ gemini_response =
            JStr(Wrap("json", JsonText(ReportObject(JArr(<<JNum(1)>>), JArr(<<>>))), 1))
    /\ parsed_credit_report = ReportObject(JArr(<<JNum(1)>>), JArr(<<>>))

\* the fetch succeeded: a response that raise_for_status lets through
FetchSucceeded == GotResponse /\ pdf_response.status_code \notin 400..599

\* the extraction has run and reported an error or gave no text
ExtractionGaveNothing ==
    \/ vision_response = Unset
    \/ Len(vision_response.error_message) > 0
    \/ ~vision_response.has_annotation
    \/ vision_response.text = <<>>

\* C5: for a valid request whose fetch succeeds, when the text extraction
\* reports an error or yields empty text (no full-text annotation included)
\* the function fails with 500 and neither the structuring collaborator nor
\* any later one is invoked.
C5_EmptyExtractionIs500 ==
    (pc \notin {"Validating", "Fetching", "Extracting"}
        /\ FetchSucceeded /\ ExtractionGaveNothing)
    => (/\ pc = "Failed"
        /\ result = ErrorResponse(result.message)
        /\ \A i \in 1..Len(calls) : calls[i] \in {"fetch", "extract"})

\* the Vision call answered with an annotation whose text is empty
C5_Witness ==
    /\ pc = "Failed"
    /\ calls = <<"fetch", "extract">>
    /\ vision_response # Unset
    /\ vision_response.error_message = <<>>
    /\ vision_response.has_annotation
    /\ vision_response.text = <<>>
    /\ result.code = 500

\* the structuring answer is empty, is not JSON once the fence is taken
\* off, or denotes an empty value
StructureAnswerUnusable(text) ==
    \/ text = <<>>
    \/ ~JsonLoads(StripCodeFence(text)).ok
    \/ ~Truthy(JsonLoads(StripCodeFence(text)).val)

\* C6: for a structuring answer that is empty, not JSON after the fence is
\* stripped, or empty after parsing, the function returns 500 with an error
\* envelope, never 200, and the insert is not invoked.
C6_UnusableStructureIs500 ==
    (LastCall = "structure" /\ gemini_response # Unset
        /\ StructureAnswerUnusable(gemini_response.s))
    => (/\ pc = "Failed"
        /\ result = ErrorResponse(result.message)
        /\ table = <<>>
        /\ calls = <<"fetch", "extract", "structure">>)

\* an empty object in a fence tagged json has been refused
C6_Witness ==
    /\ pc = "Failed"
    /\ LastCall = "structure"
    /\ gemini_response = JStr(Wrap("json", JsonText(JObj(<<>>)), 0))
    /\ result.code = 500

\* the collaborator c has been invoked
Invoked(c) == \E i \in 1..Len(calls) : calls[i] = c

\* the insert has returned
InsertReturned == table # <<>>

\* C7: when fetch, extraction and structuring succeed and the detection
\* answers with the empty array, the pipeline goes on: drafting and the
\* insert are invoked, and when they succeed the response is 200 with
\* violations_found = 0.
C7_NoViolationsGoesOn ==
    (Ended /\ detected_violations = JArr(<<>>))
    => (/\ Invoked("draft")
        /\ dispute_letter # Unset => Invoked("persist")
        /\ InsertReturned =>
                (result.code = 200 /\ result.summary.violations_found = 0))

\* C8: when every upstream step succeeds and the insert throws, the
\* response is 500 with an error envelope; a 200 or a status "success" is
\* returned only when the insert has returned.
C8_NoSuccessWithoutInsert ==
    /\ (Ended /\ Invoked("persist") /\ ~InsertReturned)
            => result = ErrorResponse(result.message)
    /\ (Ended /\ result.kind = "returned"
            /\ (result.code = 200 \/ result.status = "success"))
            => (InsertReturned /\ table[1] = result.data[1])

\* the insert has thrown after five successful steps
C8_Witness ==
    /\ pc = "Failed"
    /\ calls = Collaborators
    /\ table = <<>>
    /\ result = ErrorResponse("InsertError")

\* the summary count n is the number of entries of the list v; nothing is
\* required for a value that is not a list
CountsList(n, v) == v.t = "arr" => n = Len(v.a)

\* the summary count n is the number of entries of the list under key, zero
\* when the key is absent
CountsEntry(n, report, key) ==
    IF \E i \in 1..Len(report.o) : report.o[i].k = key
    THEN CountsList(n, DictItem(report, key))
    ELSE n = 0

\* C9: when all six steps succeed the response is 200 and its summary
\* counts the entries of the violation list, of the accounts list and of
\* the inquiries list of the report, an absent list counting as zero.
C9_SummaryCountsEntries ==
    (Ended /\ InsertReturned)
    => (/\ result.code = 200
        /\ CountsList(result.summary.violations_found, detected_violations)
        /\ CountsEntry(result.summary.accounts_analyzed,
                       parsed_credit_report, K_accounts)
        /\ CountsEntry(result.summary.inquiries_found,
                       parsed_credit_report, K_inquiries))

\* position of a step in the chain, 0 for the two ways to stop early
StepIndex(p) ==
    IF \E i \in 1..Len(Steps) : Steps[i] = p
    THEN CHOOSE i \in 1..Len(Steps) : Steps[i] = p
    ELSE 0

\* the invocations so far are the first ones of the fixed order, each once
InOrder(cs) ==
    /\ Len(cs) <= Len(Collaborators)
    /\ \A i \in 1..Len(cs) : cs[i] = Collaborators[i]

\* one transition of the chain: forward by one step or to a stop, at most
\* one invocation, made by the step whose turn it is, none after a stop
ChainStep ==
    /\ ~Ended
    /\ \/ StepIndex(pc') = StepIndex(pc) + 1
       \/ pc' \in {"Failed", "Raised"}
    /\ \/ calls' = calls
       \/ /\ calls' = Append(calls, Collaborators[StepIndex(pc) - 1])
          /\ StepIndex(pc) = Len(calls) + 2
    /\ InOrder(calls')

\* C10: the steps occur only in the order Validating, Fetching, Extracting,
\* Structuring, Detecting, Drafting, Persisting, Done: each collaborator is
\* invoked at most once and only after every earlier step has succeeded,
\* nothing is retried, nothing goes back, and after a failure no
\* collaborator is invoked.
C10_FixedOrder == [][ChainStep]_vars

\* a complete run: every collaborator once, in order
C10_Witness ==
    /\ pc = "Done"
    /\ calls = Collaborators
    /\ result.code = 200

\* C11: the insert is invoked at most once, and once it has returned the
\* response of the execution is the 200 success envelope: no 400 or 500 is
\* produced after a record has been written, whatever report and violation
\* list the collaborators returned.
C11_WrittenMeansSuccess ==
    /\ Count("persist") <= 1
    /\ Len(table) <= 1
    /\ (Ended /\ InsertReturned)
            => (/\ result.kind = "returned"
                /\ result.code = 200
                /\ result.status = "success")

====
